---- MODULE Spec2Model ----
(***************************************************************************)
(* Model of examples/raspberrypi/rp2040/scripts/listen.py: the serial      *)
(* listener that captures a camera frame when an angle line is received.   *)
(* One sequential process (main loop, open_serial_port, listen_to_serial,  *)
(* capture_image) runs against an environment made of the serial device,   *)
(* the camera, the file system and an operator who may restart the script. *)
(***************************************************************************)
EXTENDS Integers, Sequences, FiniteSets, TLC

VARIABLES
    pc,         \* position of the process in listen.py
    serOpen,    \* the Serial object `ser` is open
    rxbuf,      \* bytes received on the open port and not yet read
    tx,         \* bytes of the device's current frame not yet transmitted
    data,       \* local `data` of listen_to_serial (decoded, stripped text)
    angle,      \* parameter `angle` of capture_image
    cameraOpened, \* camera.isOpened()
    fs,         \* directory contents: folder -> set of entries
    log,        \* last message written to the console
    attempts,   \* serial.Serial() calls made by the current open_serial_port
    fails,      \* of which raised SerialException
    retryLogs,  \* "Retrying in 2 seconds..." messages of the current call
    slept,      \* seconds slept by the current open_serial_port call
    openCalls,  \* open_serial_port calls since start or the last I/O failure
    lossSeen,   \* listen_to_serial has caught a SerialException in this run
    handles,    \* Serial objects of the process that are open
    missing     \* capture folders that do not exist

vars == <<pc, serOpen, rxbuf, tx, data, angle, cameraOpened, fs, log,
          attempts, fails, retryLogs, slept, openCalls, lossSeen, handles,
          missing>>

----------------------------------------------------------------------------
(* Bounds of the model *)

MaxBuf == 11        \* bytes the receive buffer holds
MaxEntries == 2     \* entries a folder holds before writes fail (disk full)
MaxFails == 2       \* consecutive failed opens in one open_serial_port call
MaxForeign == 1     \* entries per folder created by other programs

----------------------------------------------------------------------------
(* Program constants *)

capture_dir_5 == "captures/angle_5"
capture_dir_45 == "captures/angle_45"
Folders == {capture_dir_5, capture_dir_45}

RetryDelay == 2

\* "Angle: " as code points / ASCII bytes
AnglePrefix == <<65, 110, 103, 108, 101, 58, 32>>
Angle70 == AnglePrefix \o <<55, 48>>
Angle48 == AnglePrefix \o <<52, 56>>

NoAngle == 0

----------------------------------------------------------------------------
(* bytes.decode('utf-8') in strict mode, and str.rstrip() *)

IsCont(b) == b \in 128..191

RECURSIVE Utf8Decode(_)
Utf8Decode(bs) ==
    IF bs = <<>> THEN [ok |-> TRUE, text |-> <<>>]
    ELSE LET b == Head(bs)
             n == IF b < 128 THEN 1
                  ELSE IF b \in 194..223 THEN 2
                  ELSE IF b \in 224..239 THEN 3
                  ELSE IF b \in 240..244 THEN 4
                  ELSE 0
             wellFormed ==
                 /\ n > 0
                 /\ Len(bs) >= n
                 /\ \A i \in 2..n : IsCont(bs[i])
                 /\ (b = 224 => bs[2] >= 160)
                 /\ (b = 237 => bs[2] <= 159)
                 /\ (b = 240 => bs[2] >= 144)
                 /\ (b = 244 => bs[2] <= 143)
             cp == IF n = 1 THEN b
                   ELSE IF n = 2 THEN (b - 192) * 64 + (bs[2] - 128)
                   ELSE IF n = 3 THEN (b - 224) * 4096 + (bs[2] - 128) * 64
                                      + (bs[3] - 128)
                   ELSE (b - 240) * 262144 + (bs[2] - 128) * 4096
                        + (bs[3] - 128) * 64 + (bs[4] - 128)
         IN  IF ~wellFormed THEN [ok |-> FALSE, text |-> <<>>]
             ELSE LET rest == Utf8Decode(SubSeq(bs, n + 1, Len(bs)))
                  IN  IF rest.ok
                      THEN [ok |-> TRUE, text |-> <<cp>> \o rest.text]
                      ELSE rest

\* str.isspace() for one code point
IsSpace(c) ==
    \/ c \in 9..13
    \/ c \in 28..32
    \/ c \in {133, 160, 5760, 8232, 8233, 8239, 8287, 12288}
    \/ c \in 8192..8202

RECURSIVE rstrip(_)
rstrip(s) ==
    IF s = <<>> \/ ~IsSpace(s[Len(s)]) THEN s
    ELSE rstrip(SubSeq(s, 1, Len(s) - 1))

----------------------------------------------------------------------------
(* The serial device: frames it may transmit, one byte at a time *)

LF == 10
CR == 13

Frames ==
    { Angle70 \o <<LF>>,                   \* "Angle: 70\n"
      Angle48 \o <<CR, LF>>,               \* "Angle: 48\r\n"
      Angle70 \o <<48, LF>>,               \* "Angle: 700\n"
      AnglePrefix \o <<52, 53, LF>>,       \* "Angle: 45\n"
      <<255, LF>> }                        \* a byte that is not UTF-8

\* position of the first line feed in a byte string, 0 if none
FirstLF(bs) ==
    IF \E i \in 1..Len(bs) : bs[i] = LF
    THEN CHOOSE i \in 1..Len(bs) : bs[i] = LF /\ \A j \in 1..(i - 1) : bs[j] # LF
    ELSE 0

\* ser.readline(): the bytes returned and the bytes left in the buffer.
\* With no line feed in the buffer the call returns at the read timeout
\* with whatever has arrived.
readline(buf) ==
    LET i == FirstLF(buf)
        k == IF i = 0 THEN Len(buf) ELSE i
    IN  [line |-> SubSeq(buf, 1, k), rest |-> SubSeq(buf, k + 1, Len(buf))]

----------------------------------------------------------------------------
(* The file system *)

\* An entry <<stem, n, w>> is the file <stem>_<n>.jpg, written w times
\* (w = 2 stands for "more than once": its first content was overwritten).
Entries ==
    {<<"capture", n, w>> : n \in 0..(MaxEntries + 1), w \in 1..2}
        \cup {<<"other", k, 1>> : k \in 1..MaxForeign}

\* variant: the entries of capture_dir_5 are counted whatever the folder
file_count_dir_5(folder, fsys) == Cardinality(fsys[capture_dir_5])

\* len(os.listdir(folder))
file_count(folder, fsys) == Cardinality(fsys[folder])

\* folder = capture_dir_5 if angle == 5 else capture_dir_45
folder_of(a) == IF a = 5 THEN capture_dir_5 ELSE capture_dir_45

\* variant: the file is numbered with the entry count itself
file_name_no_increment(folder, count) == <<folder, "capture", count>>

\* f'{folder}/capture_{file_count + 1}.jpg'
file_name(folder, count) == <<folder, "capture", count + 1>>

\* cv2.imwrite(file_name, frame) when it succeeds
imwrite(fsys, path) ==
    LET old == {e \in fsys[path[1]] : e[1] = path[2] /\ e[2] = path[3]}
        w == IF old = {} THEN 1 ELSE 2
    IN  [fsys EXCEPT ![path[1]] = (@ \ old) \cup {<<path[2], path[3], w>>}]

----------------------------------------------------------------------------
(* Process start: module level code of listen.py, lines 7-11 *)

Init ==
    /\ pc = "main"
    /\ serOpen = FALSE
    /\ rxbuf = <<>>
    /\ tx = <<>>
    /\ data = <<>>
    /\ angle = NoAngle
    /\ cameraOpened \in BOOLEAN
    /\ fs = [d \in Folders |-> {}]
    /\ log = "none"
    /\ attempts = 0 /\ fails = 0 /\ retryLogs = 0 /\ slept = 0
    /\ openCalls = 0
    /\ lossSeen = FALSE
    /\ handles = 0
    /\ missing = {}

----------------------------------------------------------------------------
(* Helpers of the process *)

\* variant: the messages are matched with startswith instead of ==
marker_of_startswith(d) ==
    IF Len(d) >= Len(Angle70) /\ SubSeq(d, 1, Len(Angle70)) = Angle70 THEN 70
    ELSE IF Len(d) >= Len(Angle48) /\ SubSeq(d, 1, Len(Angle48)) = Angle48 THEN 48
    ELSE NoAngle

\* the if/elif chain of listen_to_serial: the angle passed to capture_image
marker_of(d) ==
    IF d = Angle70 THEN 70
    ELSE IF d = Angle48 THEN 48
    ELSE NoAngle

\* outcomes of serial.Serial(port, baudrate, timeout=1)
OpenOutcomes == {"ok", "SerialException"}

\* variant: the except clause names an exception type that open never raises
OpenCatches_ValueError(exc) == exc = "ValueError"

\* except serial.SerialException in open_serial_port
OpenCatches(exc) == exc = "SerialException"

\* variant: exponential backoff, 2^k seconds after the k-th failed attempt
Backoff_exponential(k) == 2 ^ k

\* time.sleep(2) after the k-th failed attempt
Backoff(k) == RetryDelay

\* outcomes of os.listdir(folder)
ListdirOutcomes == {"ok", "OSError"}

\* an exception nobody catches ends the process; the OS closes the port
Crash(exc) ==
    /\ pc' = "crashed"
    /\ log' = exc
    /\ serOpen' = FALSE
    /\ rxbuf' = <<>>
    /\ data' = <<>>
    /\ angle' = NoAngle
    /\ handles' = 0

----------------------------------------------------------------------------
(* __main__: ser = open_serial_port(port, baudrate) *)

Main ==
    /\ pc = "main"
    /\ pc' = "open"
    /\ openCalls' = openCalls + 1
    /\ attempts' = 0 /\ fails' = 0 /\ retryLogs' = 0 /\ slept' = 0
    /\ UNCHANGED <<serOpen, rxbuf, tx, data, angle, cameraOpened, fs, log,
                   lossSeen>>
    /\ UNCHANGED <<handles, missing>>

(* open_serial_port: one pass of the try block *)
OpenAttempt ==
    /\ pc = "open"
    /\ \E outcome \in OpenOutcomes :
        /\ outcome # "ok" => fails < MaxFails
        /\ attempts' = attempts + 1
        /\ IF outcome = "ok"
           THEN /\ serOpen' = TRUE
                /\ rxbuf' = <<>>
                /\ log' = "Connected"
                /\ pc' = "connected"
                /\ handles' = handles + 1
                /\ UNCHANGED <<fails, retryLogs, data, angle>>
           ELSE IF OpenCatches(outcome)
           THEN /\ fails' = fails + 1
                /\ retryLogs' = retryLogs + 1
                /\ log' = "Retrying"
                /\ pc' = "sleep"
                /\ UNCHANGED <<serOpen, rxbuf, data, angle, handles>>
           ELSE /\ Crash(outcome)
                /\ fails' = fails + 1
                /\ UNCHANGED retryLogs
    /\ UNCHANGED <<tx, cameraOpened, fs, slept, openCalls, lossSeen>>
    /\ UNCHANGED missing

(* open_serial_port: time.sleep(2), then the next pass of while True *)
Sleep ==
    /\ pc = "sleep"
    /\ slept' = slept + Backoff(fails)
    /\ pc' = "open"
    /\ UNCHANGED <<serOpen, rxbuf, tx, data, angle, cameraOpened, fs, log,
                   attempts, fails, retryLogs, openCalls, lossSeen>>
    /\ UNCHANGED <<handles, missing>>

(* __main__: listen_to_serial(ser) is entered *)
EnterListen ==
    /\ pc = "connected"
    /\ pc' = "listen"
    /\ attempts' = 0 /\ fails' = 0 /\ retryLogs' = 0 /\ slept' = 0
    /\ UNCHANGED <<serOpen, rxbuf, tx, data, angle, cameraOpened, fs, log,
                   openCalls, lossSeen>>
    /\ UNCHANGED <<handles, missing>>

----------------------------------------------------------------------------
(* listen_to_serial *)

(* variant: readline() is called without the in_waiting test, so that a *)
(* read that times out with nothing received is dispatched as ""         *)
ReadLine_no_in_waiting ==
    /\ pc = "listen"
    /\ LET r == readline(rxbuf)
           d == Utf8Decode(r.line)
       IN  IF d.ok
           THEN /\ data' = rstrip(d.text)
                /\ rxbuf' = r.rest
                /\ log' = "Received"
                /\ pc' = "dispatch"
                /\ UNCHANGED <<serOpen, angle, handles>>
           ELSE Crash("UnicodeDecodeError")
    /\ UNCHANGED <<tx, cameraOpened, fs, attempts, fails, retryLogs, slept,
                   openCalls, lossSeen>>
    /\ UNCHANGED missing

(* if ser.in_waiting > 0: is false, the while loop goes round *)
Idle ==
    /\ pc = "listen"
    /\ serOpen
    /\ Len(rxbuf) = 0
    /\ UNCHANGED vars

(* if ser.in_waiting > 0: data = ser.readline().decode('utf-8').rstrip() *)
ReadLine ==
    /\ pc = "listen"
    /\ Len(rxbuf) > 0
    /\ LET r == readline(rxbuf)
           d == Utf8Decode(r.line)
       IN  IF d.ok
           THEN /\ data' = rstrip(d.text)
                /\ rxbuf' = r.rest
                /\ log' = "Received"
                /\ pc' = "dispatch"
                /\ UNCHANGED <<serOpen, angle, handles>>
           ELSE Crash("UnicodeDecodeError")
    /\ UNCHANGED <<tx, cameraOpened, fs, attempts, fails, retryLogs, slept,
                   openCalls, lossSeen>>
    /\ UNCHANGED missing

(* variant: capture_image is started in the background and the loop *)
(* goes on reading at once                                           *)
Dispatch_background ==
    /\ pc = "dispatch"
    /\ IF marker_of(data) # NoAngle
       THEN /\ angle' = marker_of(data)
            /\ pc' = "listen"
            /\ data' = <<>>
       ELSE /\ pc' = "listen"
            /\ data' = <<>>
            /\ UNCHANGED angle
    /\ UNCHANGED <<serOpen, rxbuf, tx, cameraOpened, fs, log, attempts, fails,
                   retryLogs, slept, openCalls, lossSeen>>
    /\ UNCHANGED <<handles, missing>>

(* the comparisons of data with the angle messages *)
Dispatch ==
    /\ pc = "dispatch"
    /\ IF marker_of(data) # NoAngle
       THEN /\ angle' = marker_of(data)
            /\ pc' = "capture"
            /\ UNCHANGED data
       ELSE /\ pc' = "listen"
            /\ data' = <<>>
            /\ UNCHANGED angle
    /\ UNCHANGED <<serOpen, rxbuf, tx, cameraOpened, fs, log, attempts, fails,
                   retryLogs, slept, openCalls, lossSeen>>
    /\ UNCHANGED <<handles, missing>>

(* variant: the try/except sits inside the while loop, so that the loop *)
(* goes on with the closed port instead of returning to __main__        *)
ReadFail_inside_loop ==
    /\ pc = "listen"
    /\ serOpen
    /\ log' = "Serial connection lost"
    /\ serOpen' = FALSE
    /\ rxbuf' = <<>>
    /\ data' = <<>>
    /\ pc' = "listen"
    /\ openCalls' = 0
    /\ lossSeen' = TRUE
    /\ UNCHANGED <<tx, angle, cameraOpened, fs, attempts, fails, retryLogs,
                   slept>>
    /\ handles' = handles - 1
    /\ UNCHANGED missing

(* variant: the handler returns to __main__ without ser.close() *)
ReadFail_no_close ==
    /\ pc = "listen"
    /\ serOpen
    /\ log' = "Serial connection lost"
    /\ data' = <<>>
    /\ pc' = "main"
    /\ openCalls' = 0
    /\ lossSeen' = TRUE
    /\ UNCHANGED <<serOpen, rxbuf, tx, angle, cameraOpened, fs, attempts,
                   fails, retryLogs, slept, handles, missing>>

(* except serial.SerialException: print, ser.close(), return to __main__ *)
ReadFail ==
    /\ pc = "listen"
    /\ serOpen
    /\ log' = "Serial connection lost"
    /\ serOpen' = FALSE
    /\ rxbuf' = <<>>
    /\ data' = <<>>
    /\ pc' = "main"
    /\ openCalls' = 0
    /\ lossSeen' = TRUE
    /\ UNCHANGED <<tx, angle, cameraOpened, fs, attempts, fails, retryLogs,
                   slept>>
    /\ handles' = handles - 1
    /\ UNCHANGED missing

----------------------------------------------------------------------------
(* capture_image *)

(* variant: as capture.py does, exit() when the camera is not opened or *)
(* gives no frame                                                       *)
Grab_exit ==
    /\ pc = "capture"
    /\ IF ~cameraOpened
       THEN Crash("Could not open camera")
       ELSE \E ret \in BOOLEAN :
            IF ret
            THEN /\ pc' = "save"
                 /\ UNCHANGED <<serOpen, rxbuf, log, data, angle, handles>>
            ELSE Crash("Failed to capture image")
    /\ UNCHANGED <<tx, cameraOpened, fs, attempts, fails, retryLogs,
                   slept, openCalls, lossSeen>>
    /\ UNCHANGED missing

(* camera.isOpened() and camera.read() *)
Grab ==
    /\ pc = "capture"
    /\ IF ~cameraOpened
       THEN /\ log' = "Could not open camera"
            /\ pc' = "listen"
            /\ data' = <<>>
            /\ angle' = NoAngle
       ELSE \E ret \in BOOLEAN :
            IF ret
            THEN /\ pc' = "save"
                 /\ UNCHANGED <<log, data, angle>>
            ELSE /\ log' = "Failed to capture image"
                 /\ pc' = "listen"
                 /\ data' = <<>>
                 /\ angle' = NoAngle
    /\ UNCHANGED <<serOpen, rxbuf, tx, cameraOpened, fs, attempts, fails,
                   retryLogs, slept, openCalls, lossSeen>>
    /\ UNCHANGED <<handles, missing>>

(* variant: as capture.py does, camera.release() at the end of the capture *)
Save_release ==
    /\ pc = "save"
    /\ \E ls \in ListdirOutcomes, written \in BOOLEAN :
        LET folder == folder_of(angle)
            count == file_count(folder, fs)
            path == file_name(folder, count)
        IN  /\ written => Cardinality(fs[folder]) < MaxEntries
            /\ folder \in missing => ls = "OSError"
            /\ IF ls = "ok"
               THEN /\ fs' = IF written THEN imwrite(fs, path) ELSE fs
                    /\ log' = "Captured image saved"
                    /\ pc' = "listen"
                    /\ data' = <<>>
                    /\ angle' = NoAngle
                    /\ cameraOpened' = FALSE
                    /\ UNCHANGED <<serOpen, rxbuf, handles>>
               ELSE /\ written = FALSE
                    /\ Crash(ls)
                    /\ UNCHANGED <<fs, cameraOpened>>
    /\ UNCHANGED <<tx, attempts, fails, retryLogs, slept,
                   openCalls, lossSeen>>
    /\ UNCHANGED missing

(* the if ret: branch: folder, file_count, file_name, cv2.imwrite, print *)
Save ==
    /\ pc = "save"
    /\ \E ls \in ListdirOutcomes, written \in BOOLEAN :
        LET folder == folder_of(angle)
            count == file_count(folder, fs)
            path == file_name(folder, count)
        IN  /\ written => Cardinality(fs[folder]) < MaxEntries
            /\ folder \in missing => ls = "OSError"
            /\ IF ls = "ok"
               THEN /\ fs' = IF written THEN imwrite(fs, path) ELSE fs
                    /\ log' = "Captured image saved"
                    /\ pc' = "listen"
                    /\ data' = <<>>
                    /\ angle' = NoAngle
                    /\ UNCHANGED <<serOpen, rxbuf, handles>>
               ELSE /\ written = FALSE
                    /\ Crash(ls)
                    /\ UNCHANGED fs
    /\ UNCHANGED <<tx, cameraOpened, attempts, fails, retryLogs, slept,
                   openCalls, lossSeen>>
    /\ UNCHANGED missing

----------------------------------------------------------------------------
(* Environment *)

(* the device puts the next byte of its output on the wire; a byte sent *)
(* while the port is closed is lost                                      *)
DeviceSendByte ==
    /\ \E src \in (IF tx = <<>> THEN Frames ELSE {tx}) :
        /\ serOpen => Len(rxbuf) + Len(src) <= MaxBuf
        /\ tx' = Tail(src)
        /\ rxbuf' = IF serOpen THEN Append(rxbuf, Head(src)) ELSE rxbuf
    /\ UNCHANGED <<pc, serOpen, data, angle, cameraOpened, fs, log, attempts,
                   fails, retryLogs, slept, openCalls, lossSeen>>
    /\ UNCHANGED <<handles, missing>>

(* another program creates an entry in a capture folder; its entries are *)
(* named other_1, other_2, ... in the order of their creation            *)
ExternalAdd ==
    /\ \E d \in Folders, k \in 1..MaxForeign :
        /\ d \notin missing
        /\ k = Cardinality({e \in fs[d] : e[1] = "other"}) + 1
        /\ Cardinality(fs[d]) < MaxEntries
        /\ fs' = [fs EXCEPT ![d] = @ \cup {<<"other", k, 1>>}]
    /\ UNCHANGED <<pc, serOpen, rxbuf, tx, data, angle, cameraOpened, log,
                   attempts, fails, retryLogs, slept, openCalls, lossSeen>>
    /\ UNCHANGED <<handles, missing>>

(* the script is stopped from outside and started again: lines 7-11 run *)
(* again, the folders and their contents stay                           *)
Restart ==
    /\ pc # "main" \/ lossSeen
    /\ pc' = "main"
    /\ serOpen' = FALSE
    /\ rxbuf' = <<>>
    /\ data' = <<>>
    /\ angle' = NoAngle
    /\ cameraOpened' \in BOOLEAN
    /\ log' = "none"
    /\ attempts' = 0 /\ fails' = 0 /\ retryLogs' = 0 /\ slept' = 0
    /\ openCalls' = 0
    /\ lossSeen' = FALSE
    /\ UNCHANGED <<tx, fs>>
    /\ handles' = 0
    /\ missing' = {}

(* somebody deletes a capture folder with everything in it; only a new *)
(* start of the script (os.makedirs, lines 9-10) creates it again      *)
RemoveFolder ==
    /\ \E d \in Folders \ missing :
        /\ fs' = [fs EXCEPT ![d] = {}]
        /\ missing' = missing \cup {d}
    /\ UNCHANGED <<pc, serOpen, rxbuf, tx, data, angle, cameraOpened, log,
                   attempts, fails, retryLogs, slept, openCalls, lossSeen,
                   handles>>

Next ==
    \/ Main
    \/ OpenAttempt
    \/ Sleep
    \/ EnterListen
    \/ Idle
    \/ ReadLine
    \/ Dispatch
    \/ ReadFail
    \/ Grab
    \/ Save
    \/ DeviceSendByte
    \/ ExternalAdd
    \/ Restart

Spec == Init /\ [][Next]_vars

\* the same program in an environment that may also delete capture folders
NextRm == Next \/ RemoveFolder

SpecRm == Init /\ [][NextRm]_vars

----------------------------------------------------------------------------
(* Vocabulary of the properties *)

\* positions inside listen_to_serial and capture_image
Listening == {"listen", "dispatch", "capture", "save"}

\* decimal digits of a natural number, as code points
RECURSIVE Digits(_)
Digits(n) == IF n < 10 THEN <<48 + n>> ELSE Digits(n \div 10) \o <<48 + (n % 10)>>

\* the text "Angle: <N>"
MarkerLine(n) == AnglePrefix \o Digits(n)

\* the angles whose messages listen_to_serial acts upon
ConfiguredMarkers == {70, 48}
MarkerLines == {MarkerLine(n) : n \in ConfiguredMarkers}

\* the capture_<n>.jpg entries of a folder
Captures(fsys, d) == {e \in fsys[d] : e[1] = "capture"}

\* this step is the handler of a lost connection
IsReadFail == pc = "listen" /\ serOpen /\ log' = "Serial connection lost"

\* this step takes bytes out of the receive buffer of the open port
IsRead == pc = "listen" /\ serOpen' /\ Len(rxbuf') < Len(rxbuf)

----------------------------------------------------------------------------
(* C1: a camera grab or a save happens only while handling a line whose   *)
(* text is "Angle: <N>" for a configured marker N; a dispatched line that *)
(* is no such text goes back to the read loop with no capture_image call  *)
(* and no change to any folder made by the program.                       *)
C1_OnlyMarkerLinesCapture ==
    [][ /\ pc' \in {"capture", "save"} =>
              data' \in MarkerLines /\ angle' \in ConfiguredMarkers
        /\ (\E d \in Folders : Captures(fs', d) # Captures(fs, d)) =>
              pc = "save" /\ data \in MarkerLines
        /\ (pc = "dispatch" /\ data \notin MarkerLines) =>
              /\ pc' \in {"dispatch", "listen", "main"}
              /\ \A d \in Folders : Captures(fs', d) = Captures(fs, d)
      ]_vars

\* "Angle: 700" is being dispatched after a capture has been saved
C1_Witness ==
    /\ pc = "dispatch"
    /\ data = Angle70 \o <<48>>
    /\ <<"capture", 1, 1>> \in fs[capture_dir_45]

(* C2: every file a save creates in a folder carries a number greater     *)
(* than the number of every capture file already in that folder, and no   *)
(* capture file is ever written a second time; the folders outlive a      *)
(* restart of the script.                                                 *)
C2_SequenceIncreasing ==
    [][ \A d \in Folders : \A e \in Captures(fs', d) \ Captures(fs, d) :
            /\ e[3] = 1
            /\ \A x \in Captures(fs, d) : e[2] > x[2]
      ]_vars

\* capture_2.jpg has just been saved in a folder that held capture_1.jpg
C2_Witness ==
    /\ Captures(fs, capture_dir_45) = {<<"capture", 1, 1>>, <<"capture", 2, 1>>}
    /\ pc = "listen"
    /\ log = "Captured image saved"

(* C3 (as claimed): a save writes capture_<n>.jpg with n = entries + 1,   *)
(* and a dispatched line "Angle: 45" starts a capture whose image goes to *)
(* captures/angle_45.                                                     *)
C3_Claim ==
    [][ /\ \A d \in Folders : \A e \in Captures(fs', d) \ Captures(fs, d) :
              e[2] = Cardinality(fs[d]) + 1
        /\ (pc = "dispatch" /\ data = MarkerLine(45) /\ pc' \notin {"dispatch", "main"}) =>
              pc' = "capture" /\ folder_of(angle') = capture_dir_45
      ]_vars

(* C4 (as claimed): the folder a capture is written to belongs to its     *)
(* marker alone: no other configured marker is stored in the same folder. *)
C4_Claim ==
    pc = "save" =>
        \A m \in ConfiguredMarkers \ {angle} : folder_of(m) # folder_of(angle)

(* C5: after listen_to_serial has lost the connection, lines are read     *)
(* again only after exactly one call of open_serial_port, which has       *)
(* opened the port; the handler discards the buffer of the failed         *)
(* connection and every read removes the bytes it returns from the        *)
(* buffer, so nothing dispatched before the failure is dispatched again.  *)
C5_OneReconnect ==
    [][ /\ pc' \in Listening => openCalls' = 1 /\ serOpen'
        /\ IsReadFail => pc' = "main" /\ rxbuf' = <<>> /\ ~serOpen'
        /\ IsRead => /\ pc' = "dispatch"
                     /\ rxbuf' = SubSeq(rxbuf, Len(rxbuf) - Len(rxbuf') + 1, Len(rxbuf))
      ]_vars

\* a line has been read on the connection opened after a failure
C5_Witness ==
    /\ lossSeen
    /\ pc = "dispatch"
    /\ openCalls = 1
    /\ data # <<>>

(* C6: while open_serial_port runs, after k failed opens it has made k    *)
(* attempts, printed k retry messages and slept k times the fixed delay   *)
(* (one delay less while the k-th sleep is still to come); when it        *)
(* returns it has made k + 1 attempts, and the read loop runs only on an  *)
(* open port.                                                             *)
C6_RetryAccounting ==
    /\ pc = "open" =>
          attempts = fails /\ retryLogs = fails /\ slept = RetryDelay * fails
    /\ pc = "sleep" =>
          /\ attempts = fails /\ retryLogs = fails /\ fails >= 1
          /\ slept = RetryDelay * (fails - 1)
    /\ pc = "connected" =>
          /\ attempts = fails + 1 /\ retryLogs = fails
          /\ slept = RetryDelay * fails
          /\ serOpen
    /\ pc \in Listening => serOpen

\* open_serial_port returns after two failed opens
C6_Witness ==
    pc = "connected" /\ fails = 2 /\ attempts = 3 /\ slept = 2 * RetryDelay

(* C7: open_serial_port returns only with the port open; whatever error   *)
(* the open raises, the function goes on to sleep and try again, and the  *)
(* process never ends with an error of the open.                          *)
C7_OpenNeverGivesUp ==
    [][ /\ pc' = "connected" => serOpen'
        /\ pc \in {"open", "sleep"} => pc' \in {"open", "sleep", "connected", "main"}
        /\ pc' = "crashed" => log' \notin OpenOutcomes
        /\ (pc = "open" /\ fails' > fails) => pc' = "sleep"
      ]_vars

\* the port is open after an attempt that failed and was retried
C7_Witness ==
    pc = "connected" /\ serOpen /\ fails >= 1 /\ log = "Connected"

(* C8: when capture_image finds the camera not opened or gets no frame,   *)
(* no folder changes, so the number of the next capture stays, and the    *)
(* process is back in the read loop on the same open connection with the  *)
(* received bytes untouched.                                              *)
C8_GrabFailure ==
    [][ (pc = "capture" /\ pc' \notin {"capture", "save", "main"}) =>
            /\ log' \in {"Could not open camera", "Failed to capture image"}
            /\ fs' = fs
            /\ \A d \in Folders : file_count(d, fs') = file_count(d, fs)
            /\ pc' = "listen"
            /\ serOpen'
            /\ rxbuf' = rxbuf
      ]_vars

\* back in the read loop after a grab that gave no frame, a line waiting
C8_Witness ==
    /\ pc = "listen"
    /\ log = "Failed to capture image"
    /\ serOpen
    /\ FirstLF(rxbuf) > 0

(* C9 (as claimed): a save that stores nothing is reported as a failed    *)
(* save, leaves the folder as it was and returns to the read loop.        *)
C9_Claim ==
    [][ (pc = "save" /\ pc' \notin {"save", "main"}
            /\ Captures(fs', folder_of(angle)) = Captures(fs, folder_of(angle))) =>
            /\ log' = "Failed to save image"
            /\ pc' = "listen"
            /\ fs' = fs
      ]_vars

(* C10 (as claimed): reading a line that is not valid UTF-8 drops the     *)
(* line: no capture starts, the loop goes on with the rest of the buffer  *)
(* on the same connection, and the process keeps running.                 *)
C10_Claim ==
    [][ (pc = "listen" /\ Len(rxbuf) > 0 /\ rxbuf' # rxbuf
            /\ Len(rxbuf') < Len(rxbuf)
            /\ pc' # "main"
            /\ ~Utf8Decode(readline(rxbuf).line).ok) =>
            /\ pc' = "listen"
            /\ serOpen'
            /\ rxbuf' = readline(rxbuf).rest
            /\ fs' = fs
      ]_vars

(* C11: the process never holds more than one open Serial object: the    *)
(* handler of a lost connection closes it before __main__ calls           *)
(* open_serial_port again, nothing is open while the port is being        *)
(* (re)opened, and bytes are only ever read on the connection opened by   *)
(* the one open_serial_port call made since the last failure.             *)
C11_OneConnection ==
    [][ /\ handles' \in {0, 1}
        /\ handles' = (IF serOpen' THEN 1 ELSE 0)
        /\ pc' \in {"main", "open", "sleep"} => handles' = 0
        /\ IsReadFail => ~serOpen' /\ handles' = 0
        /\ IsRead => serOpen /\ openCalls = 1
      ]_vars

\* reading again on a new connection, the failed one closed
C11_Witness ==
    /\ lossSeen
    /\ pc = "listen"
    /\ handles = 1
    /\ serOpen
    /\ Len(rxbuf) > 0

(* C12: a capture_image call is in progress exactly while the process is  *)
(* at its grab or its save; a line is read only when no call is in        *)
(* progress, a call starts only from the dispatch of a line, and while a  *)
(* call is in progress no byte leaves the receive buffer.                 *)
C12_CaptureSerialized ==
    [][ /\ (angle' # NoAngle) <=> (pc' \in {"capture", "save"})
        /\ (pc = "listen" /\ pc' = "dispatch") => angle = NoAngle
        /\ (pc' = "capture" /\ pc # "capture") => pc = "dispatch"
        /\ (pc' = "save" /\ pc # "save") => pc = "capture"
        /\ (pc \in {"capture", "save"} /\ pc' \in Listening) =>
              /\ Len(rxbuf') >= Len(rxbuf)
              /\ SubSeq(rxbuf', 1, Len(rxbuf)) = rxbuf
      ]_vars

\* a complete line is waiting in the buffer while a frame is being saved
C12_Witness ==
    /\ pc = "save"
    /\ angle # NoAngle
    /\ FirstLF(rxbuf) > 0

\* the failures the controller is said to survive
SurvivableFailures ==
    {"SerialException", "OSError", "Could not open camera",
     "Failed to capture image"}

(* C13 (as claimed): no failure of an open, a read, a grab or a save ends *)
(* the process.                                                           *)
C13_Claim ==
    pc = "crashed" => log \notin SurvivableFailures

(* C14: while the loop waits on an open port with nothing received, the   *)
(* process does nothing: unless the port raises an error or the script is *)
(* restarted, it stays in the loop on the same connection, prints         *)
(* nothing, dispatches nothing, and the camera and the capture files stay *)
(* as they are.                                                           *)
C14_EmptyReadNoEffect ==
    [][ (pc = "listen" /\ serOpen /\ Len(rxbuf) = 0 /\ pc' # "main") =>
            /\ pc' = "listen"
            /\ serOpen'
            /\ handles' = handles
            /\ openCalls' = openCalls
            /\ log' = log
            /\ data' = data
            /\ cameraOpened' = cameraOpened
            /\ \A d \in Folders : Captures(fs', d) = Captures(fs, d)
      ]_vars

\* connected, nothing received yet, the device in the middle of a frame
C14_Witness ==
    /\ pc = "listen"
    /\ serOpen
    /\ Len(rxbuf) = 0
    /\ log = "Connected"
    /\ tx # <<>>

(* C15 (as claimed): a line that starts a capture was read together with  *)
(* its line feed; bytes of a frame whose line feed has not arrived start  *)
(* no capture.                                                            *)
C15_Claim ==
    [][ (pc = "listen" /\ pc' = "dispatch" /\ marker_of(data') # NoAngle) =>
            FirstLF(rxbuf) > 0
      ]_vars

C17_Claim ==
    [][ (pc = "save" /\ pc' \notin {"save", "main"}) =>
            /\ folder_of(angle) \in missing =>
                  /\ pc' = "listen"
                  /\ folder_of(angle) \notin missing'
                  /\ fs'[folder_of(angle)] \subseteq {<<"capture", 1, 1>>}
            /\ folder_of(angle) \notin missing =>
                  fs[folder_of(angle)] \subseteq fs'[folder_of(angle)]
      ]_vars

\* number of line feeds, that is of complete lines, in a byte string
CountLF(bs) == Cardinality({i \in 1..Len(bs) : bs[i] = LF})

(* C18 (as claimed): each dispatch hands over exactly one received line,  *)
(* the oldest in the buffer, so that every line is dispatched once and in *)
(* arrival order.                                                         *)
C18_Claim ==
    [][ (pc = "listen" /\ pc' = "dispatch") =>
            /\ CountLF(rxbuf') = CountLF(rxbuf) - 1
            /\ rxbuf' = SubSeq(rxbuf, FirstLF(rxbuf) + 1, Len(rxbuf))
            /\ data' = rstrip(Utf8Decode(SubSeq(rxbuf, 1, FirstLF(rxbuf))).text)
      ]_vars

(* C19: a folder in which no other program has created an entry holds     *)
(* exactly capture_1.jpg .. capture_m.jpg, m the number of its entries,   *)
(* each written once.                                                     *)
C19_Contiguous ==
    \A d \in Folders :
        (\A e \in fs[d] : e[1] = "capture") =>
            fs[d] = {<<"capture", n, 1>> : n \in 1..Cardinality(fs[d])}

\* two captures in a folder of their own, reading again after a reconnect
C19_Witness ==
    /\ fs[capture_dir_45] = {<<"capture", 1, 1>>, <<"capture", 2, 1>>}
    /\ lossSeen
    /\ pc = "listen"
    /\ log = "Connected"

====
